---- MODULE Spec2Model ----
(***************************************************************************)
(* NYCHA QualityGuard Pro: the rework-risk scorer, the urgency classifier  *)
(* and the tools and routes that rank their output.                        *)
(*                                                                         *)
(* Representation.                                                         *)
(*  - A text is a sequence of one-character strings, so that lower(),      *)
(*    the substring test `in` and the regex word boundary \b are computed  *)
(*    character by character.                                              *)
(*  - A numeric cell of a DataFrame is a record [kind, v]: kind "int" or   *)
(*    "float" is a number of that dtype, "nan" is NaN (a missing value),   *)
(*    "str" is a value read_csv could not convert to a number.             *)
(*  - A text cell is [na, str, s]: na = TRUE is NaN (an empty CSV cell);   *)
(*    str = FALSE is a value that is not a str (a number), and s is then   *)
(*    what str() makes of it.                                              *)
(*  - Risk scores are counted in hundredths (0.05 is 5) and propensities   *)
(*    in thousandths (0.2 is 200).  The doubles the scorer produces        *)
(*    compare with 0.0, 0.6 and 1.0, and with one another above 0.6,       *)
(*    exactly as these decimals do (0.05 + 0.3 + 0.25 == 0.6 in binary64). *)
(***************************************************************************)
EXTENDS Integers, Sequences, FiniteSets, TLC

VARIABLES
    assets_csv,         \* data/synthetic_assets.csv: rows [asset_id, installation_year, asset_type]
    contractors_csv,    \* data/synthetic_contractors.csv: rows [contractor_id, base_rework_propensity]
    work_orders_csv,    \* data/synthetic_work_orders.csv: rows of raw work orders
    csv_error,          \* the exception pd.read_csv raises on each of the three files ("" if none)
    api_pages,          \* what the 311 endpoint answers, page by page
    complaints_df,      \* the complaints frame the caller of flag_urgent_complaints holds
    fetch,              \* a running fetch_and_process_311_data: its locals and its requests
    call,               \* the operation that ran last ("" before the first one)
    ret                 \* what that operation returned (or that it raised)

vars == <<assets_csv, contractors_csv, work_orders_csv, csv_error, api_pages, complaints_df,
          fetch, call, ret>>

----------------------------------------------------------------------------
(* Text.                                                                   *)

\* the lower-case letter of every upper-case letter
LowerCase ==
    [A |-> "a", B |-> "b", C |-> "c", D |-> "d", E |-> "e", F |-> "f", G |-> "g",
     H |-> "h", I |-> "i", J |-> "j", K |-> "k", L |-> "l", M |-> "m", N |-> "n",
     O |-> "o", P |-> "p", Q |-> "q", R |-> "r", S |-> "s", T |-> "t", U |-> "u",
     V |-> "v", W |-> "w", X |-> "x", Y |-> "y", Z |-> "z"]
Letters == DOMAIN LowerCase \cup { LowerCase[c] : c \in DOMAIN LowerCase }
Digits == {"0","1","2","3","4","5","6","7","8","9"}

\* str.lower() on one character
LowerChar(c) == IF c \in DOMAIN LowerCase THEN LowerCase[c] ELSE c

\* str.lower()
RECURSIVE Lower(_)
Lower(s) == IF s = <<>> THEN <<>> ELSE <<LowerChar(Head(s))>> \o Lower(Tail(s))

\* Python's `pat in s` on strings
IsSubstring(pat, s) ==
    \E i \in 1..(Len(s) - Len(pat) + 1) : \A j \in 1..Len(pat) : s[i + j - 1] = pat[j]

\* str(x) of a text cell: str(float('nan')) is 'nan'
NanText == <<"n","a","n">>
Str(cell) == IF cell.na THEN NanText ELSE cell.s

Text(s) == [na |-> FALSE, str |-> TRUE, s |-> s]
NoText == [na |-> TRUE, str |-> FALSE, s |-> <<>>]
\* a number in a column of texts; s is its str()
NotText(s) == [na |-> FALSE, str |-> FALSE, s |-> s]

\* numeric cells
Int64(n) == [kind |-> "int", v |-> n]
Float64(n) == [kind |-> "float", v |-> n]
NaN == [kind |-> "nan", v |-> 0]
BadNumber == [kind |-> "str", v |-> 0]

\* pd.notnull on a cell
notnull(cell) == cell.kind # "nan"

----------------------------------------------------------------------------
(* Resolution texts: those of the data generator, and three that hold both *)
(* a quick-fix and a thorough-fix term.                                    *)

\* "Temporary patch applied"
TemporaryPatchApplied ==
    <<"T","e","m","p","o","r","a","r","y"," ","p","a","t","c","h"," ","a","p","p","l","i","e","d">>
\* "Reset unit"
ResetUnit ==
    <<"R","e","s","e","t"," ","u","n","i","t">>
\* "Replaced compressor"
ReplacedCompressor ==
    <<"R","e","p","l","a","c","e","d"," ","c","o","m","p","r","e","s","s","o","r">>
\* "Complete system overhaul"
CompleteSystemOverhaul ==
    <<"C","o","m","p","l","e","t","e"," ","s","y","s","t","e","m"," ","o","v","e","r","h","a","u","l">>
\* "Full system recalibration"
FullSystemRecalibration ==
    <<"F","u","l","l"," ","s","y","s","t","e","m"," ","r","e","c","a","l","i","b","r","a","t","i","o","n">>
\* "New unit installed"
NewUnitInstalled ==
    <<"N","e","w"," ","u","n","i","t"," ","i","n","s","t","a","l","l","e","d">>
\* "Temporary patch, pump replaced"
PatchAndReplaced ==
    <<"T","e","m","p","o","r","a","r","y"," ","p","a","t","c","h",","," ","p","u","m","p"," ","r","e","p","l","a","c","e","d">>
\* "Patched until overhaul"
PatchedUntilOverhaul ==
    <<"P","a","t","c","h","e","d"," ","u","n","t","i","l"," ","o","v","e","r","h","a","u","l">>
\* "New unit installed, temporary wiring"
NewUnitTemporaryWiring ==
    <<"N","e","w"," ","u","n","i","t"," ","i","n","s","t","a","l","l","e","d",","," ","t","e","m","p","o","r","a","r","y"," ","w","i","r","i","n","g">>

ResolutionTexts ==
    { TemporaryPatchApplied, ResetUnit, ReplacedCompressor, CompleteSystemOverhaul,
      FullSystemRecalibration, NewUnitInstalled, PatchAndReplaced, PatchedUntilOverhaul,
      NewUnitTemporaryWiring }

\* a resolution cell: one of the texts, or an empty cell
ResolutionCells == { Text(t) : t \in ResolutionTexts } \cup { NoText }

----------------------------------------------------------------------------
(* The scorer's numbers.                                                   *)

BaseRisk == 5               \* score = 0.05
OldAssetAge == 15           \* asset_age > 15
OldAssetRisk == 40          \* score += 0.4
ModeratelyOldAssetAge == 8  \* asset_age > 8
ModeratelyOldAssetRisk == 20    \* score += 0.2
QuickFixRisk == 30          \* score += 0.3
ThoroughFixRelief == 25     \* score -= 0.25
HighPropensity == 200       \* contractor_prop > 0.2
HighPropensityRisk == 25    \* score += 0.25
ModeratePropensity == 120   \* contractor_prop > 0.12
ModeratePropensityRisk == 10    \* score += 0.1
MinScore == 0               \* max(score, 0.0)
MaxScore == 100             \* min(..., 1.0)
HighRiskScore == 60         \* > 0.6 in the briefing tool, >= 0.6 in the scorer's log
TopN == 5                   \* nlargest(5, ...)

Patch == <<"p","a","t","c","h">>
Temporary == <<"t","e","m","p","o","r","a","r","y">>
Replaced == <<"r","e","p","l","a","c","e","d">>
Overhaul == <<"o","v","e","r","h","a","u","l">>
NewUnitInstalledTerm == <<"n","e","w"," ","u","n","i","t"," ","i","n","s","t","a","l","l","e","d">>

QuickFixTerms == { Patch, Temporary }
ThoroughFixTerms == { Replaced, Overhaul, NewUnitInstalledTerm }

----------------------------------------------------------------------------
(* load_synthetic_data: read the three files and join them.                *)

\* read_csv converts a column to numbers as a whole: one value that is not a
\* number leaves every value of the column a string (dtype object).
IsObjectColumn(table, col) == \E i \in DOMAIN table : table[i][col].kind = "str"

read_csv(table, col) ==
    [i \in DOMAIN table |->
        IF IsObjectColumn(table, col) /\ notnull(table[i][col])
        THEN [table[i] EXCEPT ![col] = BadNumber]
        ELSE table[i]]

\* work_orders_df.merge(assets_df[[asset_id, installation_year, asset_type]],
\*                      on='asset_id', how='left')
\* one row per matching asset, in the assets' order; one row of NaN if none
RECURSIVE merge_assets(_, _)
merge_assets(wos, assets) ==
    IF wos = <<>> THEN <<>>
    ELSE LET wo == Head(wos)
             found == SelectSeq(assets, LAMBDA a : a.asset_id = wo.asset_id)
             rows == IF found = <<>>
                     THEN << wo @@ [installation_year |-> NaN, asset_type |-> "NaN"] >>
                     ELSE [j \in 1..Len(found) |->
                              wo @@ [installation_year |-> found[j].installation_year,
                                     asset_type |-> found[j].asset_type]]
         IN  rows \o merge_assets(Tail(wos), assets)

\* an integer column that holds a NaN after the merge is a float64 column
upcast(df, col) ==
    IF \E i \in DOMAIN df : df[i][col].kind = "nan"
    THEN [i \in DOMAIN df |->
            IF df[i][col].kind = "int"
            THEN [df[i] EXCEPT ![col] = Float64(df[i][col].v)] ELSE df[i]]
    ELSE df

\* pd.to_datetime(created_date).dt.year: the year of a date 'YYYY-MM-DD'
created_year(row) == row.created_date.year

\* the age never below zero
asset_age_at_wo_clamped(row) ==
    IF row.installation_year.kind = "nan" THEN NaN
    ELSE [kind |-> row.installation_year.kind,
          v |-> IF row.created_year < row.installation_year.v THEN 0
                ELSE row.created_year - row.installation_year.v]

\* created_year - installation_year on one row; NaN stays NaN
asset_age_at_wo(row) ==
    IF row.installation_year.kind = "nan" THEN NaN
    ELSE [kind |-> row.installation_year.kind, v |-> row.created_year - row.installation_year.v]

\* work_orders_df.merge(contractors_df[[contractor_id, base_rework_propensity]],
\*     left_on='assigned_contractor_id', right_on='contractor_id', how='left')
\* then rename to contractor_rework_propensity and drop contractor_id
RECURSIVE merge_contractors(_, _)
merge_contractors(df, contractors) ==
    IF df = <<>> THEN <<>>
    ELSE LET row == Head(df)
             found == SelectSeq(contractors,
                                LAMBDA c : c.contractor_id = row.assigned_contractor_id)
             rows == IF found = <<>>
                     THEN << row @@ [contractor_rework_propensity |-> NaN] >>
                     ELSE [j \in 1..Len(found) |->
                              row @@ [contractor_rework_propensity |->
                                          found[j].base_rework_propensity]]
         IN  rows \o merge_contractors(Tail(df), contractors)

\* the exceptions of pd.read_csv: no such file, a file without columns, a
\* file that cannot be split into columns
ReadErrors == {"FileNotFoundError", "EmptyDataError", "ParserError"}
NoError == [assets |-> "", contractors |-> "", work_orders |-> ""]

\* the data frame, or None (ok = FALSE) when an exception was caught;
\* errors[f] is what pd.read_csv raises on file f
load_synthetic_data(errors, assets, contractors, work_orders) ==
    LET assets_df == read_csv(assets, "installation_year")
        contractors_df == read_csv(contractors, "base_rework_propensity")
        merged == upcast(merge_assets(work_orders, assets_df), "installation_year")
        \* int - str raises TypeError, caught by `except Exception`
        failed == \E i \in DOMAIN merged : merged[i].installation_year.kind = "str"
        \* an assigned_contractor_id column of empty cells only is a float64
        \* column; merging it on the strings of contractor_id raises
        \* ValueError, caught by `except Exception`
        no_ids == /\ work_orders # <<>> /\ contractors # <<>>
                  /\ \A i \in DOMAIN work_orders : work_orders[i].assigned_contractor_id = ""
        dated == [i \in DOMAIN merged |->
                    merged[i] @@ [created_year |-> created_year(merged[i])]]
        aged == [i \in DOMAIN dated |->
                    dated[i] @@ [asset_age_at_wo |-> asset_age_at_wo(dated[i])]]
    IN  IF errors # NoError \/ failed \/ no_ids THEN [ok |-> FALSE, df |-> <<>>]
        ELSE [ok |-> TRUE, df |-> merge_contractors(aged, contractors_df)]

----------------------------------------------------------------------------
(* assess_risk_revised: the rules, applied to one row of the joined frame. *)

\* A risk factor is [factor, num, fmt]: the label's fixed words, the number
\* printed in it and how it is printed ("int": str of an int64, "24";
\* "float": str of a float64, "24.0"; ".2f": hundredths; "": no number).
Factor(name) == [factor |-> name, num |-> 0, fmt |-> ""]
AgeFactor(name, age) == [factor |-> name, num |-> age.v, fmt |-> age.kind]

\* f'{contractor_prop:.2f}': thousandths to hundredths.  A binary64 that
\* prints ...5 in thousandths is rounded by its binary value.
RoundsUp2f == {5, 25, 35, 55, 65, 85, 95, 115, 135, 165, 195, 225, 255, 265, 275}
Format2f(p) ==
    IF p % 10 = 5 THEN (p \div 10) + (IF p \in RoundsUp2f THEN 1 ELSE 0)
    ELSE (p + 5) \div 10
PropensityFactor(name, prop) == [factor |-> name, num |-> Format2f(prop.v), fmt |-> ".2f"]

LowBaseRisk == Factor("Low Base Risk")
QuickFixIndicated == Factor("Quick Fix Indicated")
ThoroughFixPerformed == Factor("Thorough Fix Performed")

\* x > threshold on a cell: False for NaN, TypeError for a string
Greater(cell, threshold) == cell.kind \in {"int", "float"} /\ cell.v > threshold

\* Each rule gives [raised, delta, factors].
Fired(delta, factor) == [raised |-> FALSE, delta |-> delta, factors |-> <<factor>>]
NotFired == [raised |-> FALSE, delta |-> 0, factors |-> <<>>]
TypeError == [raised |-> TRUE, delta |-> 0, factors |-> <<>>]

\* the age rule with the two increments exchanged
AgeRuleExchanged(asset_age) ==
    IF asset_age.kind = "str" THEN TypeError
    ELSE IF Greater(asset_age, OldAssetAge)
         THEN Fired(ModeratelyOldAssetRisk, AgeFactor("Old Asset", asset_age))
    ELSE IF Greater(asset_age, ModeratelyOldAssetAge)
         THEN Fired(OldAssetRisk, AgeFactor("Moderately Old Asset", asset_age))
    ELSE NotFired

\* asset_age = row.get('asset_age_at_wo', 0); if asset_age > 15 ... elif asset_age > 8 ...
AgeRule(asset_age) ==
    IF asset_age.kind = "str" THEN TypeError
    ELSE IF Greater(asset_age, OldAssetAge)
         THEN Fired(OldAssetRisk, AgeFactor("Old Asset", asset_age))
    ELSE IF Greater(asset_age, ModeratelyOldAssetAge)
         THEN Fired(ModeratelyOldAssetRisk, AgeFactor("Moderately Old Asset", asset_age))
    ELSE NotFired

\* the resolution rule with the thorough-fix terms tested first
ResolutionRuleThoroughFirst(cell) ==
    LET resolution == Lower(Str(cell))
    IN  IF \E t \in ThoroughFixTerms : IsSubstring(t, resolution)
        THEN Fired(0 - ThoroughFixRelief, ThoroughFixPerformed)
        ELSE IF \E t \in QuickFixTerms : IsSubstring(t, resolution)
        THEN Fired(QuickFixRisk, QuickFixIndicated)
        ELSE NotFired

\* resolution = str(row.get('resolution_text_simulated', '')).lower()
ResolutionRule(cell) ==
    LET resolution == Lower(Str(cell))
    IN  IF \E t \in QuickFixTerms : IsSubstring(t, resolution)
        THEN Fired(QuickFixRisk, QuickFixIndicated)
        ELSE IF \E t \in ThoroughFixTerms : IsSubstring(t, resolution)
        THEN Fired(0 - ThoroughFixRelief, ThoroughFixPerformed)
        ELSE NotFired

\* the contractor rule with >= for both thresholds
GreaterOrEqual(cell, threshold) == cell.kind \in {"int", "float"} /\ cell.v >= threshold
ContractorRuleInclusive(contractor_prop) ==
    IF ~notnull(contractor_prop) THEN NotFired
    ELSE IF contractor_prop.kind = "str" THEN TypeError
    ELSE IF GreaterOrEqual(contractor_prop, HighPropensity)
         THEN Fired(HighPropensityRisk,
                    PropensityFactor("High Propensity Contractor", contractor_prop))
    ELSE IF GreaterOrEqual(contractor_prop, ModeratePropensity)
         THEN Fired(ModeratePropensityRisk,
                    PropensityFactor("Moderate Propensity Contractor", contractor_prop))
    ELSE NotFired

\* contractor_prop = row.get('contractor_rework_propensity')
ContractorRule(contractor_prop) ==
    IF ~notnull(contractor_prop) THEN NotFired
    ELSE IF contractor_prop.kind = "str" THEN TypeError
    ELSE IF Greater(contractor_prop, HighPropensity)
         THEN Fired(HighPropensityRisk,
                    PropensityFactor("High Propensity Contractor", contractor_prop))
    ELSE IF Greater(contractor_prop, ModeratePropensity)
         THEN Fired(ModeratePropensityRisk,
                    PropensityFactor("Moderate Propensity Contractor", contractor_prop))
    ELSE NotFired

Min(a, b) == IF a < b THEN a ELSE b
Max(a, b) == IF a > b THEN a ELSE b

\* the cap without its floor: min(score, 1.0)
CapWithoutFloor(score) == Min(score, MaxScore)

\* score = min(max(score, 0.0), 1.0)
Cap(score) == Min(Max(score, MinScore), MaxScore)

\* risk_factors if risk_factors else ['Low Base Risk']
FactorsOrDefault(risk_factors) == IF risk_factors # <<>> THEN risk_factors ELSE <<LowBaseRisk>>

\* the scorer leaving once the score has dropped below 0.0: the contractor
\* rule is not evaluated then
assess_risk_revised_early_exit(row) ==
    LET age == AgeRule(row.asset_age_at_wo)
        res == ResolutionRule(row.resolution_text_simulated)
        con == IF BaseRisk + age.delta + res.delta < MinScore THEN NotFired
               ELSE ContractorRule(row.contractor_rework_propensity)
    IN  [raised |-> age.raised \/ con.raised,
         predicted_rework_risk_score |-> Cap(BaseRisk + age.delta + res.delta + con.delta),
         predicted_risk_factors |-> FactorsOrDefault(age.factors \o res.factors \o con.factors)]

\* one pass over the three rules, in the order age, resolution, contractor
assess_risk_revised(row) ==
    LET age == AgeRule(row.asset_age_at_wo)
        res == ResolutionRule(row.resolution_text_simulated)
        con == ContractorRule(row.contractor_rework_propensity)
    IN  [raised |-> age.raised \/ con.raised,
         predicted_rework_risk_score |-> Cap(BaseRisk + age.delta + res.delta + con.delta),
         predicted_risk_factors |-> FactorsOrDefault(age.factors \o res.factors \o con.factors)]

\* the scorer without its `if df is None`: df.apply on None raises
predict_rework_risk_unguarded(errors, assets, contractors, work_orders) ==
    LET loaded == load_synthetic_data(errors, assets, contractors, work_orders)
        df == loaded.df
        risk_results == [i \in DOMAIN df |-> assess_risk_revised(df[i])]
    IN  IF ~loaded.ok \/ \E i \in DOMAIN df : risk_results[i].raised
        THEN [status |-> "raised", df |-> <<>>]
        ELSE [status |-> "ok",
              df |-> [i \in DOMAIN df |->
                        df[i] @@ [predicted_rework_risk_score |->
                                      risk_results[i].predicted_rework_risk_score,
                                  predicted_risk_factors |->
                                      risk_results[i].predicted_risk_factors]]]

\* predict_rework_risk_for_work_orders.  status "ok": the scored frame;
\* "empty": pd.DataFrame() because the load failed; "raised": df.apply let
\* an exception of assess_risk_revised through.
predict_rework_risk_for_work_orders(errors, assets, contractors, work_orders) ==
    LET loaded == load_synthetic_data(errors, assets, contractors, work_orders)
        df == loaded.df
        risk_results == [i \in DOMAIN df |-> assess_risk_revised(df[i])]
    IN  IF ~loaded.ok THEN [status |-> "empty", df |-> <<>>]
        ELSE IF \E i \in DOMAIN df : risk_results[i].raised
        THEN [status |-> "raised", df |-> <<>>]
        ELSE [status |-> "ok",
              df |-> [i \in DOMAIN df |->
                        df[i] @@ [predicted_rework_risk_score |->
                                      risk_results[i].predicted_rework_risk_score,
                                  predicted_risk_factors |->
                                      risk_results[i].predicted_risk_factors]]]

----------------------------------------------------------------------------
(* Rank and select: DataFrame.nlargest(n, column), keep='first'.           *)

RemoveAt(s, i) == SubSeq(s, 1, i - 1) \o SubSeq(s, i + 1, Len(s))

\* the first row that holds the largest value of the column
FirstLargest(rows, col) ==
    CHOOSE i \in DOMAIN rows :
        \A j \in DOMAIN rows :
            /\ rows[j][col] <= rows[i][col]
            /\ (j < i => rows[j][col] < rows[i][col])

\* the n largest rows, largest first; equal values keep the order of the frame
RECURSIVE nlargest(_, _, _)
nlargest(rows, n, col) ==
    IF n = 0 \/ rows = <<>> THEN <<>>
    ELSE LET i == FirstLargest(rows, col)
         IN  <<rows[i]>> \o nlargest(RemoveAt(rows, i), n - 1, col)

----------------------------------------------------------------------------
(* The tools and the route that read the scorer.                           *)

\* what a handler hands back: its value, and the exception it caught ("" if none)
\* and the exception that left it (raised, "" if it returned)
Returned(value) == [value |-> value, caught |-> "", raised |-> ""]
Caught(value, exception) == [value |-> value, caught |-> exception, raised |-> ""]
Raised(exception) == [value |-> <<>>, caught |-> "", raised |-> exception]

\* the filter with >= 0.6, as the scorer's own log counts
IsHighRiskInclusive(row) == row.predicted_rework_risk_score >= HighRiskScore

\* df[df['predicted_rework_risk_score'] > 0.6]
IsHighRisk(row) == row.predicted_rework_risk_score > HighRiskScore

\* high_risk_count = (df['predicted_rework_risk_score'] >= 0.6).sum(), the
\* number predict_rework_risk_for_work_orders logs as flagged high risk
high_risk_count(df) ==
    Cardinality({ i \in DOMAIN df : df[i].predicted_rework_risk_score >= HighRiskScore })

high_risk_job(row) ==
    [wo_id |-> row.wo_id,
     asset_type |-> row.asset_type,
     predicted_rework_risk_score |-> row.predicted_rework_risk_score,
     predicted_risk_factors |-> row.predicted_risk_factors]

get_recent_high_rework_risk_jobs(errors, assets, contractors, work_orders) ==
    LET p == predict_rework_risk_for_work_orders(errors, assets, contractors, work_orders)
        high_risk_df == nlargest(SelectSeq(p.df, IsHighRisk), TopN, "predicted_rework_risk_score")
    IN  IF p.status = "raised" THEN Caught(<<>>, "TypeError")
        ELSE IF p.df = <<>> THEN Returned(<<>>)
        ELSE Returned([i \in DOMAIN high_risk_df |-> high_risk_job(high_risk_df[i])])

\* GET /api/maintenance/rework-assessments: [code, count]
get_rework_assessments(errors, assets, contractors, work_orders) ==
    LET p == predict_rework_risk_for_work_orders(errors, assets, contractors, work_orders)
    IN  IF p.status = "raised" THEN Caught([code |-> 500, count |-> 0], "TypeError")
        ELSE IF p.df = <<>> THEN Returned([code |-> 404, count |-> 0])
        ELSE Returned([code |-> 200, count |-> Len(p.df)])

----------------------------------------------------------------------------
(* The urgency classifier.                                                 *)

URGENT_KEYWORDS ==
    << <<"f","i","r","e">>,
    <<"s","m","o","k","e">>,
    <<"g","a","s"," ","l","e","a","k">>,
    <<"c","a","r","b","o","n"," ","m","o","n","o","x","i","d","e">>,
    <<"c","o","l","l","a","p","s","e">>,
    <<"u","n","s","a","f","e">>,
    <<"d","a","n","g","e","r","o","u","s">>,
    <<"h","a","z","a","r","d">>,
    <<"m","o","l","d">>,
    <<"a","s","b","e","s","t","o","s">>,
    <<"l","e","a","d">>,
    <<"i","n","f","e","s","t","a","t","i","o","n">>,
    <<"n","o"," ","h","e","a","t">>,
    <<"n","o"," ","h","o","t"," ","w","a","t","e","r">>,
    <<"n","o"," ","w","a","t","e","r">>,
    <<"n","o"," ","e","l","e","c","t","r","i","c","i","t","y">>,
    <<"p","o","w","e","r"," ","o","u","t","a","g","e">>,
    <<"e","l","e","v","a","t","o","r"," ","s","t","u","c","k">>,
    <<"e","l","e","v","a","t","o","r"," ","b","r","o","k","e","n">>,
    <<"c","h","i","l","d">>,
    <<"c","h","i","l","d","r","e","n">>,
    <<"b","a","b","y">>,
    <<"i","n","f","a","n","t">>,
    <<"e","l","d","e","r","l","y">>,
    <<"s","e","n","i","o","r">>,
    <<"d","i","s","a","b","l","e","d">>,
    <<"m","e","d","i","c","a","l">>,
    <<"h","e","a","l","t","h">>,
    <<"e","m","e","r","g","e","n","c","y">>,
    <<"c","e","i","l","i","n","g"," ","c","o","l","l","a","p","s","e">>,
    <<"w","a","l","l"," ","c","o","l","l","a","p","s","e">>,
    <<"f","l","o","o","d">>,
    <<"w","a","t","e","r"," ","d","a","m","a","g","e">>,
    <<"l","e","a","k">>,
    <<"b","r","o","k","e","n"," ","w","i","n","d","o","w">>,
    <<"b","r","o","k","e","n"," ","d","o","o","r">>,
    <<"b","r","e","a","k"," ","i","n">>,
    <<"i","n","t","r","u","d","e","r">>,
    <<"s","q","u","a","t","t","e","r">>,
    <<"i","l","l","e","g","a","l"," ","e","n","t","r","y">>,
    <<"f","o","r","c","e","d"," ","e","n","t","r","y">> >>

\* \w of the regex
IsWordChar(c) == c \in Letters \/ c \in Digits \/ c = "_"

\* \b between s[i] and s[i+1] (i = 0: before the text; i = Len(s): after it)
IsWordAt(s, i) == i \in 1..Len(s) /\ IsWordChar(s[i])
WordBoundary(s, i) == IsWordAt(s, i) # IsWordAt(s, i + 1)

\* the search without the two \b: the keyword anywhere in the text
re_search_anywhere(keyword, text_lower) == IsSubstring(keyword, text_lower)

\* re.search(r'\b' + re.escape(keyword) + r'\b', text_lower)
re_search(keyword, text_lower) ==
    \E i \in 1..(Len(text_lower) - Len(keyword) + 1) :
        /\ WordBoundary(text_lower, i - 1)
        /\ \A j \in 1..Len(keyword) : text_lower[i + j - 1] = keyword[j]
        /\ WordBoundary(text_lower, i + Len(keyword) - 1)

\* not text.strip()
IsBlank(text) == \A i \in 1..Len(text) : text[i] = " "

\* the matched keywords, in the order of URGENT_KEYWORDS
check_text_for_urgency(text) ==
    IF IsBlank(text) THEN <<>>
    ELSE SelectSeq(URGENT_KEYWORDS, LAMBDA keyword : re_search(keyword, Lower(text)))

\* list(all_matches): every match of every column kept
unique_keep_all(s) == s

\* list(set(all_matches)): every keyword once.  Python leaves the order of
\* the list open; it is listed here in the order of the first match.
RECURSIVE unique(_)
unique(s) ==
    IF s = <<>> THEN <<>>
    ELSE LET rest == unique(SubSeq(s, 1, Len(s) - 1))
             last == s[Len(s)]
         IN  IF \E i \in DOMAIN rest : rest[i] = last THEN rest ELSE Append(rest, last)

text_columns == <<"descriptor", "complaint_type", "resolution_description">>

\* the matches of one row over the text columns
RECURSIVE all_matches(_, _, _)
all_matches(columns, row, k) ==
    IF k > Len(text_columns) THEN <<>>
    ELSE LET col == text_columns[k]
             here == IF col \in columns /\ ~row[col].na
                     THEN check_text_for_urgency(Str(row[col])) ELSE <<>>
         IN  here \o all_matches(columns, row, k + 1)

\* is_urgent set from the matches of the descriptor alone
flag_urgent_complaints_descriptor_only(df) ==
    [columns |-> df.columns \cup {"is_urgent", "urgent_keywords_found"},
     rows |-> [i \in DOMAIN df.rows |->
                 LET m == all_matches(df.columns, df.rows[i], 1)
                     d == all_matches(df.columns \cap {"descriptor"}, df.rows[i], 1)
                 IN  df.rows[i] @@ [is_urgent |-> d # <<>>,
                                    urgent_keywords_found |-> unique(m)]]]

\* A complaints frame is [columns, rows].  The result is a copy with two
\* more columns.
flag_urgent_complaints(df) ==
    [columns |-> df.columns \cup {"is_urgent", "urgent_keywords_found"},
     rows |-> [i \in DOMAIN df.rows |->
                 LET m == all_matches(df.columns, df.rows[i], 1)
                 IN  df.rows[i] @@ [is_urgent |-> m # <<>>,
                                    urgent_keywords_found |-> unique(m)]]]

\* without the copy: the function writes to the frame it was given
df_same(df) == [shared |-> TRUE, frame |-> df]

\* df = df.copy(): the frame the function writes to is an object of its own
df_copy(df) == [shared |-> FALSE, frame |-> df]

\* the frame the caller holds once flag_urgent_complaints(df) has returned:
\* the two columns are written to the frame the function works on
caller_frame(df) == IF df_copy(df).shared THEN flag_urgent_complaints(df) ELSE df

----------------------------------------------------------------------------
(* fetch_and_process_311_data: the pages of the 311 endpoint.              *)
(* api_pages[k] is the answer to the k-th request: ok = FALSE is a failed  *)
(* request, otherwise its records.  Past the last page the endpoint        *)
(* answers with no records.  A record is [unique_key, descriptor,          *)
(* complaint_type, resolution_description]; a text cell with na = TRUE is  *)
(* a key the JSON record does not have.                                    *)

DefaultMaxPages == 100      \* max_pages: int = 100

PageLimit == 1              \* records on one page of the model's endpoint

\* limit = 1000, scaled down to the page of the model's endpoint
limit == PageLimit

Response(pages, k) == IF k <= Len(pages) THEN pages[k] ELSE [ok |-> TRUE, records |-> <<>>]

\* the while loop; k counts the requests made so far
RECURSIVE fetch_pages(_, _, _, _)
fetch_pages(pages, max_pages, k, all_records) ==
    IF k >= max_pages THEN [failed |-> FALSE, all_records |-> all_records]
    ELSE LET response == Response(pages, k + 1)
         IN  IF ~response.ok THEN [failed |-> TRUE, all_records |-> <<>>]
             ELSE IF response.records = <<>>
             THEN [failed |-> FALSE, all_records |-> all_records]
             ELSE fetch_pages(pages, max_pages, k + 1, all_records \o response.records)

EmptyDataFrame == [columns |-> {}, rows |-> <<>>]

\* df[col].fillna('').str.lower();
\* .str.lower() gives NaN for a value that is not a str
clean_text(cell) ==
    IF cell.na THEN Text(<<>>) ELSE IF cell.str THEN Text(Lower(cell.s)) ELSE NoText

clean_row(columns, row) ==
    [col \in DOMAIN row |->
        IF col \in columns /\ \E k \in DOMAIN text_columns : text_columns[k] = col
        THEN clean_text(row[col]) ELSE row[col]]

\* what follows the loop: no records give an empty frame, and
\* pd.DataFrame(all_records) has a column for every key some record has
process_records(records) ==
    LET columns == {"unique_key"} \cup
                   { text_columns[k] : k \in { c \in DOMAIN text_columns :
                        \E i \in DOMAIN records : ~records[i][text_columns[c]].na } }
    IN  IF records = <<>> THEN EmptyDataFrame
        ELSE [columns |-> columns,
              rows |-> [i \in DOMAIN records |-> clean_row(columns, records[i])]]

fetch_and_process_311_data(pages, max_pages) ==
    LET fetched == fetch_pages(pages, max_pages, 0, <<>>)
    IN  IF fetched.failed THEN EmptyDataFrame ELSE process_records(fetched.all_records)

\* The same function a request at a time.  A running call is [pc,
\* max_pages, offset, all_records, requests, df]: requests lists the
\* requests made so far, each with its $offset and how it ended, and df is
\* the frame returned once pc = "done".
NotFetching ==
    [pc |-> "idle", max_pages |-> 0, offset |-> 0, all_records |-> <<>>,
     requests |-> <<>>, df |-> EmptyDataFrame]

\* while offset < (max_pages * limit)
loop_condition(f) == f.offset < f.max_pages * limit

requested(f, outcome) == Append(f.requests, [offset |-> f.offset, outcome |-> outcome])

\* a failed request that hands back what the earlier pages gave
request_failed_partial(f) ==
    [f EXCEPT !.pc = "done", !.requests = requested(f, "failed"),
              !.df = process_records(f.all_records)]

\* except requests.exceptions.RequestException: return pd.DataFrame()
request_failed(f) ==
    [f EXCEPT !.pc = "done", !.requests = requested(f, "failed"), !.df = EmptyDataFrame]

\* a loop body that goes on to the next page after an empty one
page_fetched_no_break(f, records) ==
    [f EXCEPT !.requests = requested(f, IF records = <<>> THEN "empty" ELSE "records"),
              !.all_records = f.all_records \o records,
              !.offset = f.offset + limit]

\* the loop body after a request that succeeded
page_fetched(f, records) ==
    IF records = <<>>
    THEN [f EXCEPT !.pc = "done", !.requests = requested(f, "empty"),
                   !.df = process_records(f.all_records)]
    ELSE [f EXCEPT !.requests = requested(f, "records"),
                   !.all_records = f.all_records \o records,
                   !.offset = f.offset + limit]

urgent_complaint(row) ==
    [unique_key |-> row.complaint_id,
     descriptor |-> row.complaint_descriptor,
     urgent_keywords_found |-> IF "keywords" \in DOMAIN row THEN row.keywords ELSE <<>>]

\* get_today_urgent_complaints without its except clause
get_today_urgent_complaints_uncaught(pages) ==
    LET df == fetch_and_process_311_data(pages, DefaultMaxPages)
        urgent_df == flag_urgent_complaints(df)
        top_urgent == nlargest(urgent_df.rows, TopN, "urgency_score")
    IN  IF df.rows = <<>> THEN Returned(<<>>)
        ELSE IF {"urgency_score", "complaint_id", "complaint_descriptor"} \subseteq urgent_df.columns
        THEN Returned([i \in DOMAIN top_urgent |-> urgent_complaint(top_urgent[i])])
        ELSE Raised("KeyError")

\* get_today_urgent_complaints: every exception is caught and gives []
get_today_urgent_complaints(pages) ==
    LET df == fetch_and_process_311_data(pages, DefaultMaxPages)
        urgent_df == flag_urgent_complaints(df)
        top_urgent == nlargest(urgent_df.rows, TopN, "urgency_score")
    IN  IF df.rows = <<>> THEN Returned(<<>>)
        ELSE IF "urgency_score" \notin urgent_df.columns THEN Caught(<<>>, "KeyError")
        ELSE IF {"complaint_id", "complaint_descriptor"} \subseteq urgent_df.columns
        THEN Returned([i \in DOMAIN top_urgent |-> urgent_complaint(top_urgent[i])])
        ELSE Caught(<<>>, "KeyError")

\* what CodeAgent(...) and agent.generate(prompt) of smolagents do is not this
\* program's: the constructor raises or not, generate raises, returns
\* nothing or returns a text
AgentOutcomes == {"init_raised", "generate_raised", "no_response", "response"}

\* generate_daily_briefing; calls lists what it called, in order, and
\* urgent_complaints and high_risk_jobs are what its prompt holds
generate_daily_briefing(gemini_api_key, agent, pages, errors, assets, contractors, work_orders) ==
    LET urgent_complaints == get_today_urgent_complaints(pages)
        high_risk_jobs == get_recent_high_rework_risk_jobs(errors, assets, contractors, work_orders)
        tools == <<"get_today_urgent_complaints", "get_recent_high_rework_risk_jobs">>
        error == "Error: Error generating daily briefing"
        Briefing(calls, urgent, jobs, text) ==
            [calls |-> calls, urgent_complaints |-> urgent, high_risk_jobs |-> jobs, text |-> text]
    IN  IF ~gemini_api_key
        THEN Returned(Briefing(<<>>, <<>>, <<>>, "Error: GEMINI_API_KEY not configured"))
        ELSE IF urgent_complaints.raised # ""
        THEN Caught(Briefing(SubSeq(tools, 1, 1), <<>>, <<>>, error), urgent_complaints.raised)
        ELSE IF high_risk_jobs.raised # ""
        THEN Caught(Briefing(tools, <<>>, <<>>, error), high_risk_jobs.raised)
        ELSE IF agent = "init_raised"
        THEN Caught(Briefing(tools \o <<"CodeAgent">>, <<>>, <<>>, error), "Exception")
        ELSE IF agent = "generate_raised"
        THEN Caught(Briefing(tools \o <<"CodeAgent", "generate">>, urgent_complaints.value,
                             high_risk_jobs.value, error), "Exception")
        ELSE Returned(Briefing(tools \o <<"CodeAgent", "generate">>, urgent_complaints.value,
                               high_risk_jobs.value,
                               IF agent = "no_response" THEN "Error: Failed to generate briefing"
                               ELSE "response"))

----------------------------------------------------------------------------
(* The data the operations run on.                                         *)

\* "No heat in unit, elderly tenant"
NoHeatElderly ==
    <<"N","o"," ","h","e","a","t"," ","i","n"," ","u","n","i","t",","," ","e","l","d","e","r","l","y"," ","t","e","n","a","n","t">>
\* "firefly alarm"
FireflyAlarm ==
    <<"f","i","r","e","f","l","y"," ","a","l","a","r","m">>
\* "there was a fire"
ThereWasAFire ==
    <<"t","h","e","r","e"," ","w","a","s"," ","a"," ","f","i","r","e">>
\* "paint peeling in hallway"
PaintPeeling ==
    <<"p","a","i","n","t"," ","p","e","e","l","i","n","g"," ","i","n"," ","h","a","l","l","w","a","y">>
\* "Gas leak repaired"
GasLeakRepaired ==
    <<"G","a","s"," ","l","e","a","k"," ","r","e","p","a","i","r","e","d">>
\* "HEAT/HOT WATER"
ChildrenLeakingPipe ==
    \* "Children near leaking pipe"
    <<"C","h","i","l","d","r","e","n"," ","n","e","a","r"," ","l","e","a","k","i","n","g"," ","p","i","p","e">>
FireSparks ==
    \* "FIRE! Sparks in outlet"
    <<"F","I","R","E","!"," ","S","p","a","r","k","s"," ","i","n"," ","o","u","t","l","e","t">>
HeatHotWater ==
    <<"H","E","A","T","/","H","O","T"," ","W","A","T","E","R">>

MaxBatch == 2           \* work orders in a batch of mixed work orders
MaxRankBatch == 6       \* high-risk work orders in a batch that is ranked
MaxComplaints == 2      \* complaints the endpoint holds
MaxPages == 2           \* largest max_pages a caller passes

\* sequences over S of length 0..n and 1..n
SeqsUpTo(S, n) == UNION { [1..k -> S] : k \in 0..n }
NonEmptySeqs(S, n) == UNION { [1..k -> S] : k \in 1..n }

Asset(id, year, type) == [asset_id |-> id, installation_year |-> year, asset_type |-> type]
Contractor(id, prop) == [contractor_id |-> id, base_rework_propensity |-> prop]

\* installation years around the age boundaries 8 and 15 of work orders created
\* in 2024, and one later than 2024
CreatedYear == 2024
Date(year, month, day) == [year |-> year, month |-> month, day |-> day]
CreatedDate == Date(CreatedYear, 6, 15)
Assets ==
    << Asset("ASSET_001", Int64(2000), "Boiler"),
       Asset("ASSET_002", Int64(2008), "Elevator"),
       Asset("ASSET_003", Int64(2009), "HVAC Unit"),
       Asset("ASSET_004", Int64(2015), "Boiler"),
       Asset("ASSET_005", Int64(2016), "Roof Section"),
       Asset("ASSET_006", Int64(2021), "Elevator"),
       Asset("ASSET_007", Int64(2026), "Boiler") >>
\* the same file with one installation year that is not a number
AssetsMalformed == Append(Assets, Asset("ASSET_008", BadNumber, "Boiler"))

\* propensities around the thresholds 0.12 and 0.2
Contractors ==
    << Contractor("CONTR_001", Float64(50)),
       Contractor("CONTR_002", Float64(120)),
       Contractor("CONTR_003", Float64(121)),
       Contractor("CONTR_004", Float64(200)),
       Contractor("CONTR_005", Float64(201)),
       Contractor("CONTR_006", Float64(250)) >>
\* the same file with one propensity that is not a number
ContractorsMalformed == Append(Contractors, Contractor("CONTR_007", BadNumber))

\* the same files with an identifier that occurs twice
AssetsDuplicated == Append(Assets, Asset("ASSET_001", Int64(2010), "Boiler"))
ContractorsDuplicated == Append(Contractors, Contractor("CONTR_006", Float64(100)))
DuplicatedFiles ==
    { <<AssetsDuplicated, Contractors>>, <<Assets, ContractorsDuplicated>>,
      <<AssetsDuplicated, ContractorsDuplicated>> }

\* one of the three files cannot be read, or none of them is there
ReadFailures ==
    { [NoError EXCEPT ![f] = e] : f \in DOMAIN NoError, e \in ReadErrors } \cup
    { [f \in DOMAIN NoError |-> "FileNotFoundError"] }

\* <<assets file, contractors file>> with one malformed number
MalformedFiles == { <<AssetsMalformed, Contractors>>, <<Assets, ContractorsMalformed>> }

\* asset references: every asset of the files, and one that is in neither
AssetRefs == { Assets[i].asset_id : i \in DOMAIN Assets } \cup {"ASSET_999"}
\* contractor references: none (an empty cell), every contractor, an unknown one
ContractorRefs == { Contractors[i].contractor_id : i \in DOMAIN Contractors } \cup {"", "CONTR_999"}

WorkOrderCreated(date, asset, resolution, contractor) ==
    [asset_id |-> asset, created_date |-> date,
     resolution_text_simulated |-> resolution, assigned_contractor_id |-> contractor]
WorkOrder(asset, resolution, contractor) ==
    WorkOrderCreated(CreatedDate, asset, resolution, contractor)

\* the work orders of a mixed batch: an old asset with a quick fix and a
\* high-propensity contractor; an unmatched asset with a contractor at 0.12;
\* a thorough fix with an unknown contractor; a quick fix with a contractor
\* at 0.2; a work order without contractor; a work order created on the
\* last day of 2023
MixedWorkOrders ==
    { WorkOrder("ASSET_001", Text(TemporaryPatchApplied), "CONTR_006"),
      WorkOrder("ASSET_999", Text(ResetUnit), "CONTR_002"),
      WorkOrder("ASSET_006", Text(ReplacedCompressor), "CONTR_999"),
      WorkOrder("ASSET_004", Text(NewUnitTemporaryWiring), "CONTR_004"),
      WorkOrder("ASSET_006", Text(FullSystemRecalibration), ""),
      WorkOrderCreated(Date(2023, 12, 31), "ASSET_003", Text(ResetUnit), "CONTR_001") }

\* work orders scored 0.65 and 0.8, and one scored exactly 0.6
HighRiskWorkOrders ==
    { WorkOrder("ASSET_004", Text(TemporaryPatchApplied), "CONTR_004"),
      WorkOrder("ASSET_004", Text(TemporaryPatchApplied), "CONTR_006") }
BorderlineWorkOrder == WorkOrder("ASSET_006", Text(TemporaryPatchApplied), "CONTR_006")

\* the generator numbers the work orders in file order
Numbered(batch) == [i \in DOMAIN batch |-> batch[i] @@ [wo_id |-> i]]

InsertAt(s, i, x) == SubSeq(s, 1, i - 1) \o <<x>> \o SubSeq(s, i, Len(s))

MixedBatches == { Numbered(b) : b \in NonEmptySeqs(MixedWorkOrders, MaxBatch) }

\* two work orders that differ in their asset only
AgePairs ==
    { Numbered(<< WorkOrder(a1, r, c), WorkOrder(a2, r, c) >>) :
        a1 \in AssetRefs, a2 \in AssetRefs, r \in ResolutionCells, c \in ContractorRefs }

\* up to MaxRankBatch high-risk work orders, alone or with the borderline
\* work order somewhere among them
RankingBatches ==
    { Numbered(b) : b \in NonEmptySeqs(HighRiskWorkOrders, MaxRankBatch) } \cup
    UNION { { Numbered(InsertAt(b, i, BorderlineWorkOrder)) : i \in 1..(Len(b) + 1) } :
            b \in SeqsUpTo(HighRiskWorkOrders, MaxRankBatch) }

Complaint(key, descriptor, type, resolution) ==
    [unique_key |-> key, descriptor |-> descriptor, complaint_type |-> type,
     resolution_description |-> resolution]

Complaints ==
    { Complaint("311-1", Text(NoHeatElderly), Text(HeatHotWater), NoText),
      Complaint("311-2", Text(FireflyAlarm), NoText, NoText),
      Complaint("311-3", Text(ThereWasAFire), NoText, Text(GasLeakRepaired)),
      Complaint("311-4", Text(PaintPeeling), Text(HeatHotWater), NoText),
      Complaint("311-5", NoText, NoText, NoText),
      Complaint("311-6", Text(GasLeakRepaired), NoText, Text(GasLeakRepaired)) }

\* complaints of a CSV file: the mixed case of the file is kept
CsvComplaints ==
    Complaints \cup
    { Complaint("311-7", Text(ChildrenLeakingPipe), NoText, NoText),
      Complaint("311-8", Text(PaintPeeling), Text(HeatHotWater), Text(FireSparks)) }
\* complaints of a CSV file whose descriptor column holds numbers
NumericComplaints ==
    { Complaint("311-9", NotText(<<"4","2">>), NoText, NoText),
      Complaint("311-10", NotText(<<"7">>), Text(HeatHotWater), Text(GasLeakRepaired)) }

AllColumns == {"unique_key", "descriptor", "complaint_type", "resolution_description"}
\* a row of a frame has the frame's columns only
Restrict(row, columns) == [col \in columns |-> row[col]]
Frame(columns, records) ==
    [columns |-> columns, rows |-> [i \in DOMAIN records |-> Restrict(records[i], columns)]]

\* the frames pd.read_csv gives: all the columns or the descriptor alone
CsvFrames ==
    { Frame(columns, records) :
        columns \in {AllColumns, {"unique_key", "descriptor"}},
        records \in NonEmptySeqs(CsvComplaints, MaxComplaints) } \cup
    { Frame(AllColumns, records) : records \in NonEmptySeqs(NumericComplaints, MaxComplaints) }

FailedRequest == [ok |-> FALSE, records |-> <<>>]

\* the endpoint hands out its records PageLimit at a time
RECURSIVE Paginate(_)
Paginate(records) ==
    IF records = <<>> THEN <<>>
    ELSE LET n == Min(PageLimit, Len(records))
         IN  << [ok |-> TRUE, records |-> SubSeq(records, 1, n)] >>
                 \o Paginate(SubSeq(records, n + 1, Len(records)))

\* request f fails (none if f = 0)
FailingAt(pages, f) ==
    IF f = 0 THEN pages
    ELSE IF f <= Len(pages) THEN [pages EXCEPT ![f] = FailedRequest]
    ELSE Append(pages, FailedRequest)

ApiPages ==
    UNION { { FailingAt(Paginate(records), f) : f \in 0..(Len(Paginate(records)) + 1) } :
            records \in SeqsUpTo(Complaints, MaxComplaints) }

DefaultBatch == Numbered(<< WorkOrder("ASSET_001", Text(TemporaryPatchApplied), "CONTR_006") >>)
DefaultPages == << [ok |-> TRUE, records |-> << Complaint("311-1", Text(NoHeatElderly), Text(HeatHotWater), NoText) >>] >>
DefaultFrame == fetch_and_process_311_data(DefaultPages, DefaultMaxPages)

----------------------------------------------------------------------------
(* The state machine: the data is given, and a step runs one operation on  *)
(* it.  The operations keep nothing between two calls, so one call per run *)
(* shows all they do.                                                      *)

InitMixed ==
    /\ assets_csv = Assets
    /\ contractors_csv = Contractors
    /\ csv_error = NoError
    /\ complaints_df = DefaultFrame
    /\ work_orders_csv \in MixedBatches
    /\ api_pages = DefaultPages

InitAges ==
    /\ assets_csv = Assets
    /\ contractors_csv = Contractors
    /\ csv_error = NoError
    /\ complaints_df = DefaultFrame
    /\ work_orders_csv \in AgePairs
    /\ api_pages = DefaultPages

InitMalformed ==
    /\ \E files \in MalformedFiles : assets_csv = files[1] /\ contractors_csv = files[2]
    /\ csv_error = NoError
    /\ complaints_df = DefaultFrame
    /\ work_orders_csv \in MixedBatches
    /\ api_pages = DefaultPages

InitRanking ==
    /\ assets_csv = Assets
    /\ contractors_csv = Contractors
    /\ csv_error = NoError
    /\ complaints_df = DefaultFrame
    /\ work_orders_csv \in RankingBatches
    /\ api_pages = DefaultPages

\* the agent's frame: what fetch_and_process_311_data gave it
InitComplaints ==
    /\ assets_csv = Assets
    /\ contractors_csv = Contractors
    /\ csv_error = NoError
    /\ work_orders_csv = DefaultBatch
    /\ api_pages \in ApiPages
    /\ complaints_df = fetch_and_process_311_data(api_pages, DefaultMaxPages)

\* the route's frame: what pd.read_csv gave it
InitComplaintsCsv ==
    /\ assets_csv = Assets
    /\ contractors_csv = Contractors
    /\ csv_error = NoError
    /\ work_orders_csv = DefaultBatch
    /\ api_pages = DefaultPages
    /\ complaints_df \in CsvFrames

InitDuplicated ==
    /\ \E files \in DuplicatedFiles : assets_csv = files[1] /\ contractors_csv = files[2]
    /\ csv_error = NoError
    /\ work_orders_csv \in MixedBatches
    /\ api_pages = DefaultPages
    /\ complaints_df = DefaultFrame

\* the tables of a file that cannot be read are never looked at
InitUnreadable ==
    /\ assets_csv = Assets
    /\ contractors_csv = Contractors
    /\ csv_error \in ReadFailures
    /\ work_orders_csv \in MixedBatches
    /\ api_pages = DefaultPages
    /\ complaints_df = DefaultFrame

Init ==
    /\ \/ InitMixed \/ InitAges \/ InitMalformed \/ InitRanking \/ InitComplaints
       \/ InitComplaintsCsv \/ InitDuplicated \/ InitUnreadable
    /\ fetch = NotFetching
    /\ call = ""
    /\ ret = Returned(<<>>)

\* no operation has run yet: a run of the model is one request
Idle == call = ""

\* what an operation that is one step leaves alone
Data == <<assets_csv, contractors_csv, work_orders_csv, csv_error, api_pages, fetch>>

PredictReworkRisk ==
    LET p == predict_rework_risk_for_work_orders(csv_error, assets_csv, contractors_csv, work_orders_csv)
    IN  /\ Idle
        /\ call' = "predict_rework_risk_for_work_orders"
        /\ ret' = IF p.status = "raised" THEN Raised("TypeError") ELSE Returned(p.df)
        /\ UNCHANGED <<Data, complaints_df>>

GetRecentHighReworkRiskJobs ==
    /\ Idle
    /\ call' = "get_recent_high_rework_risk_jobs"
    /\ ret' = get_recent_high_rework_risk_jobs(csv_error, assets_csv, contractors_csv, work_orders_csv)
    /\ UNCHANGED <<Data, complaints_df>>

GetReworkAssessments ==
    /\ Idle
    /\ call' = "get_rework_assessments"
    /\ ret' = get_rework_assessments(csv_error, assets_csv, contractors_csv, work_orders_csv)
    /\ UNCHANGED <<Data, complaints_df>>

FlagUrgentComplaints ==
    /\ Idle
    /\ call' = "flag_urgent_complaints"
    /\ ret' = Returned(flag_urgent_complaints(complaints_df))
    /\ complaints_df' = caller_frame(complaints_df)
    /\ UNCHANGED Data

GetTodayUrgentComplaints ==
    /\ Idle
    /\ call' = "get_today_urgent_complaints"
    /\ ret' = get_today_urgent_complaints(api_pages)
    /\ UNCHANGED <<Data, complaints_df>>

Next ==
    \/ PredictReworkRisk
    \/ GetRecentHighReworkRiskJobs
    \/ GetReworkAssessments
    \/ FlagUrgentComplaints
    \/ GetTodayUrgentComplaints

Spec == Init /\ [][Next]_vars

----------------------------------------------------------------------------
(* The briefing agent and its fetch, with the fetch taken a request at a   *)
(* time.  WF: the loop is straight-line code around a request with         *)
(* timeout=30, so a call that has started goes on to its next request or   *)
(* to its return.                                                          *)

FetchStart ==
    /\ Idle
    /\ \E max_pages \in 0..MaxPages :
          fetch' = [NotFetching EXCEPT !.pc = "loop", !.max_pages = max_pages]
    /\ call' = "fetch_and_process_311_data"
    /\ UNCHANGED <<assets_csv, contractors_csv, work_orders_csv, csv_error, api_pages,
                   complaints_df, ret>>

FetchPage ==
    LET response == Response(api_pages, (fetch.offset \div limit) + 1)
    IN  /\ fetch.pc = "loop"
        /\ loop_condition(fetch)
        /\ fetch' = IF response.ok THEN page_fetched(fetch, response.records)
                    ELSE request_failed(fetch)
        /\ ret' = IF fetch'.pc # "done" THEN ret
                  ELSE IF response.ok THEN Returned(fetch'.df)
                  ELSE Caught(fetch'.df, "RequestException")
        /\ UNCHANGED <<assets_csv, contractors_csv, work_orders_csv, csv_error, api_pages,
                       complaints_df, call>>

FetchReturn ==
    /\ fetch.pc = "loop"
    /\ ~loop_condition(fetch)
    /\ fetch' = [fetch EXCEPT !.pc = "done", !.df = process_records(fetch.all_records)]
    /\ ret' = Returned(fetch'.df)
    /\ UNCHANGED <<assets_csv, contractors_csv, work_orders_csv, csv_error, api_pages,
                   complaints_df, call>>

GenerateDailyBriefing ==
    /\ Idle
    /\ call' = "generate_daily_briefing"
    /\ \E gemini_api_key \in BOOLEAN, agent \in AgentOutcomes :
          ret' = [env |-> [gemini_api_key |-> gemini_api_key, agent |-> agent]] @@
                 generate_daily_briefing(gemini_api_key, agent, api_pages, csv_error,
                                         assets_csv, contractors_csv, work_orders_csv)
    /\ UNCHANGED <<Data, complaints_df>>

InitAgent ==
    /\ InitComplaints
    /\ fetch = NotFetching
    /\ call = ""
    /\ ret = Returned(<<>>)

NextAgent ==
    \/ FetchStart
    \/ FetchPage
    \/ FetchReturn
    \/ GetTodayUrgentComplaints
    \/ GenerateDailyBriefing

SpecAgent == InitAgent /\ [][NextAgent]_vars /\ WF_vars(FetchPage) /\ WF_vars(FetchReturn)

----------------------------------------------------------------------------
(* What the specification says of a scored row, stated on the row's own    *)
(* fields and on the texts as a reader classifies them.                    *)

\* the resolution texts that hold "patch" or "temporary"
QuickFixTexts ==
    { TemporaryPatchApplied, PatchAndReplaced, PatchedUntilOverhaul, NewUnitTemporaryWiring }
\* the resolution texts that hold "replaced", "overhaul" or "new unit installed"
ThoroughFixTexts ==
    { ReplacedCompressor, CompleteSystemOverhaul, NewUnitInstalled, PatchAndReplaced,
      PatchedUntilOverhaul, NewUnitTemporaryWiring }

Clamp01(score) == IF score < 0 THEN 0 ELSE IF score > 100 THEN 100 ELSE score

SpecAgeDelta(row) ==
    IF row.asset_age_at_wo.kind = "nan" THEN 0
    ELSE IF row.asset_age_at_wo.v > 15 THEN 40
    ELSE IF row.asset_age_at_wo.v > 8 THEN 20 ELSE 0

SpecResolutionDelta(row) ==
    IF row.resolution_text_simulated.na THEN 0
    ELSE IF row.resolution_text_simulated.s \in QuickFixTexts THEN 30
    ELSE IF row.resolution_text_simulated.s \in ThoroughFixTexts THEN 0 - 25 ELSE 0

SpecContractorDelta(row) ==
    IF row.contractor_rework_propensity.kind = "nan" THEN 0
    ELSE IF row.contractor_rework_propensity.v > 200 THEN 25
    ELSE IF row.contractor_rework_propensity.v > 120 THEN 10 ELSE 0

HasFactor(row, name) ==
    \E k \in DOMAIN row.predicted_risk_factors : row.predicted_risk_factors[k].factor = name

AgeFactorNames == {"Old Asset", "Moderately Old Asset"}
ContractorFactorNames == {"High Propensity Contractor", "Moderate Propensity Contractor"}

\* how many factors of the row bear one of the names
CountFactors(row, names) ==
    Cardinality({ k \in DOMAIN row.predicted_risk_factors :
                    row.predicted_risk_factors[k].factor \in names })

\* the scorer ran last and returned a frame
Scored == call = "predict_rework_risk_for_work_orders" /\ ret.raised = ""

\* the three files can be read, and every number of the two files is a number
WellFormedFiles ==
    /\ csv_error = NoError
    /\ \A i \in DOMAIN assets_csv : assets_csv[i].installation_year.kind # "str"
    /\ \A i \in DOMAIN contractors_csv : contractors_csv[i].base_rework_propensity.kind # "str"

\* the rows of a frame that come from work order w of the file
RowsOf(df, w) == { j \in DOMAIN df : df[j].wo_id = w }

----------------------------------------------------------------------------
(* C1: every scored work order has a score between 0.0 and 1.0 and a       *)
(* non-empty list of risk factors, which is ["Low Base Risk"] exactly when *)
(* no rule fired.                                                          *)
C1_ScoreBoundedFactorsNonEmpty ==
    Scored =>
        \A i \in DOMAIN ret.value :
            LET row == ret.value[i]
            IN  /\ row.predicted_rework_risk_score >= 0
                /\ row.predicted_rework_risk_score <= 100
                /\ row.predicted_risk_factors # <<>>
                /\ (row.predicted_risk_factors = << Factor("Low Base Risk") >>)
                     <=> ( /\ SpecAgeDelta(row) = 0
                           /\ SpecResolutionDelta(row) = 0
                           /\ SpecContractorDelta(row) = 0 )

\* a batch with a row on which no rule fired and a row whose sum 0.05 - 0.25
\* was raised to 0.0
C1_Witness ==
    /\ Scored
    /\ \E i \in DOMAIN ret.value : ret.value[i].predicted_risk_factors = << Factor("Low Base Risk") >>
    /\ \E j \in DOMAIN ret.value :
           /\ ret.value[j].predicted_rework_risk_score = 0
           /\ HasFactor(ret.value[j], "Thorough Fix Performed")

(* C2: a work order of age 3 with resolution "full system recalibration"   *)
(* and no contractor is scored 0.0 with the one factor "Thorough Fix       *)
(* Performed".                                                             *)
C2_RecalibrationIsThoroughFix ==
    Scored =>
        \A i \in DOMAIN ret.value :
            LET row == ret.value[i]
            IN  ( /\ row.asset_age_at_wo.kind # "nan"
                  /\ row.asset_age_at_wo.v = 3
                  /\ row.resolution_text_simulated = Text(FullSystemRecalibration)
                  /\ row.contractor_rework_propensity.kind = "nan" )
                => /\ row.predicted_rework_risk_score = 0
                   /\ row.predicted_risk_factors = << Factor("Thorough Fix Performed") >>

(* C3: one malformed record does not make the scorer raise; the batch is   *)
(* scored and every work order of the file gets its assessment.            *)
C3_MalformedRecordTolerated ==
    call = "predict_rework_risk_for_work_orders" =>
        /\ ret.raised = ""
        /\ \A w \in DOMAIN work_orders_csv : RowsOf(ret.value, w) # {}

(* C4: when the fetched batch is non-empty and the classifier flags a      *)
(* complaint, get_today_urgent_complaints returns a non-empty list of at   *)
(* most 5 complaints of the classifier's output.                           *)
C4_UrgentComplaintsReturned ==
    call = "get_today_urgent_complaints" =>
        LET flagged == flag_urgent_complaints(
                           fetch_and_process_311_data(api_pages, DefaultMaxPages)).rows
        IN  (\E i \in DOMAIN flagged : flagged[i].is_urgent) =>
                /\ ret.value # <<>>
                /\ Len(ret.value) <= 5
                /\ \A k \in DOMAIN ret.value :
                       \E i \in DOMAIN flagged : flagged[i].unique_key = ret.value[k].unique_key

(* C5: get_recent_high_rework_risk_jobs returns exactly the work orders    *)
(* scored strictly above 0.6, cut to the 5 highest scores, highest first,  *)
(* equal scores in the order of the input.                                 *)
C5_HighRiskJobsRanked ==
    (call = "get_recent_high_rework_risk_jobs" /\ ret.caught = "") =>
        LET df == predict_rework_risk_for_work_orders(
                      csv_error, assets_csv, contractors_csv, work_orders_csv).df
            jobs == ret.value
            high == { i \in DOMAIN df : df[i].predicted_rework_risk_score > 60 }
            returned == { jobs[k].wo_id : k \in DOMAIN jobs }
        IN  /\ Len(jobs) = (IF Cardinality(high) < 5 THEN Cardinality(high) ELSE 5)
            /\ \A k \in DOMAIN jobs :
                   \E i \in high :
                       /\ df[i].wo_id = jobs[k].wo_id
                       /\ df[i].predicted_rework_risk_score = jobs[k].predicted_rework_risk_score
                       /\ df[i].predicted_risk_factors = jobs[k].predicted_risk_factors
            /\ \A k, l \in DOMAIN jobs :
                   k < l =>
                       \/ jobs[k].predicted_rework_risk_score > jobs[l].predicted_rework_risk_score
                       \/ /\ jobs[k].predicted_rework_risk_score = jobs[l].predicted_rework_risk_score
                          /\ jobs[k].wo_id < jobs[l].wo_id
            /\ \A i \in high :
                   df[i].wo_id \notin returned =>
                       \A k \in DOMAIN jobs :
                           \/ jobs[k].predicted_rework_risk_score > df[i].predicted_rework_risk_score
                           \/ /\ jobs[k].predicted_rework_risk_score = df[i].predicted_rework_risk_score
                              /\ jobs[k].wo_id < df[i].wo_id

\* a batch with a work order scored exactly 0.6 and six above it, the sixth
\* tied with the last one returned
C5_Witness ==
    /\ call = "get_recent_high_rework_risk_jobs"
    /\ ret.caught = ""
    /\ Len(ret.value) = 5
    /\ LET df == predict_rework_risk_for_work_orders(
                     csv_error, assets_csv, contractors_csv, work_orders_csv).df
       IN  /\ \E i \in DOMAIN df : df[i].predicted_rework_risk_score = 60
           /\ \E i \in DOMAIN df :
                  /\ df[i].predicted_rework_risk_score = ret.value[5].predicted_rework_risk_score
                  /\ \A k \in DOMAIN ret.value : ret.value[k].wo_id # df[i].wo_id
           /\ \E k \in 1..4 :
                  ret.value[k].predicted_rework_risk_score = ret.value[k + 1].predicted_rework_risk_score

(* C6: a resolution text with both a quick-fix and a thorough-fix term     *)
(* gets the quick-fix branch only: +0.30 and "Quick Fix Indicated", never  *)
(* "Thorough Fix Performed"; no assessment holds both factors.             *)
C6_QuickFixWins ==
    Scored =>
        \A i \in DOMAIN ret.value :
            LET row == ret.value[i]
                text == row.resolution_text_simulated
            IN  /\ ~(HasFactor(row, "Quick Fix Indicated") /\ HasFactor(row, "Thorough Fix Performed"))
                /\ (~text.na /\ text.s \in QuickFixTexts \cap ThoroughFixTexts) =>
                       /\ HasFactor(row, "Quick Fix Indicated")
                       /\ ~HasFactor(row, "Thorough Fix Performed")
                       /\ row.predicted_rework_risk_score =
                              Clamp01(5 + SpecAgeDelta(row) + 30 + SpecContractorDelta(row))

\* a scored row whose text holds "new unit installed" and "temporary"
C6_Witness ==
    /\ Scored
    /\ \E i \in DOMAIN ret.value :
           /\ ret.value[i].resolution_text_simulated = Text(NewUnitTemporaryWiring)
           /\ HasFactor(ret.value[i], "Quick Fix Indicated")

(* C7: with resolution text and propensity fixed, the score never          *)
(* decreases when the asset age increases.                                 *)
C7_MonotoneInAge ==
    Scored =>
        \A i, j \in DOMAIN ret.value :
            LET a == ret.value[i]
                b == ret.value[j]
            IN  ( /\ a.resolution_text_simulated = b.resolution_text_simulated
                  /\ a.contractor_rework_propensity = b.contractor_rework_propensity
                  /\ a.asset_age_at_wo.kind # "nan"
                  /\ b.asset_age_at_wo.kind # "nan"
                  /\ a.asset_age_at_wo.v <= b.asset_age_at_wo.v )
                => a.predicted_rework_risk_score <= b.predicted_rework_risk_score

\* two rows alike but for their ages 15 and 16, the older scored higher
C7_Witness ==
    /\ Scored
    /\ \E i, j \in DOMAIN ret.value :
           /\ ret.value[i].resolution_text_simulated = ret.value[j].resolution_text_simulated
           /\ ret.value[i].contractor_rework_propensity = ret.value[j].contractor_rework_propensity
           /\ ret.value[i].asset_age_at_wo = Int64(15)
           /\ ret.value[j].asset_age_at_wo = Int64(16)
           /\ ret.value[i].predicted_rework_risk_score < ret.value[j].predicted_rework_risk_score

\* work order w of the file names an asset that is not in the assets file
AssetUnmatched(w) ==
    \A a \in DOMAIN assets_csv : assets_csv[a].asset_id # work_orders_csv[w].asset_id

(* C8: a work order whose asset matches no asset is enriched and scored    *)
(* without error: its age is undefined and adds neither score nor factor,  *)
(* and the resolution and contractor rules still apply.                    *)
C8_UnmatchedAssetScored ==
    (call = "predict_rework_risk_for_work_orders" /\ WellFormedFiles) =>
        /\ ret.raised = ""
        /\ \A w \in DOMAIN work_orders_csv :
               AssetUnmatched(w) =>
                   /\ RowsOf(ret.value, w) # {}
                   /\ \A j \in RowsOf(ret.value, w) :
                          LET row == ret.value[j]
                          IN  /\ row.asset_age_at_wo = NaN
                              /\ CountFactors(row, AgeFactorNames) = 0
                              /\ row.predicted_rework_risk_score =
                                     Clamp01(5 + SpecResolutionDelta(row) + SpecContractorDelta(row))

\* work order w has no contractor, or one that is not in the contractors file
ContractorUnmatched(w) ==
    \A c \in DOMAIN contractors_csv :
        contractors_csv[c].contractor_id # work_orders_csv[w].assigned_contractor_id

(* C9: a work order with no contractor, or with one absent from the        *)
(* contractor set, gets an absent propensity and no error; its assessment  *)
(* has no contractor factor and no contractor contribution.                *)
C9_UnmatchedContractorScored ==
    (call = "predict_rework_risk_for_work_orders" /\ WellFormedFiles) =>
        /\ ret.raised = ""
        /\ \A w \in DOMAIN work_orders_csv :
               ContractorUnmatched(w) =>
                   /\ RowsOf(ret.value, w) # {}
                   /\ \A j \in RowsOf(ret.value, w) :
                          LET row == ret.value[j]
                          IN  /\ row.contractor_rework_propensity = NaN
                              /\ CountFactors(row, ContractorFactorNames) = 0
                              /\ row.predicted_rework_risk_score =
                                     Clamp01(5 + SpecAgeDelta(row) + SpecResolutionDelta(row))

(* C10: the contractor thresholds are strict: above 0.20 adds 0.25 and a   *)
(* "High Propensity Contractor" factor; otherwise above 0.12 adds 0.10 and *)
(* a "Moderate Propensity Contractor" factor; 0.12 or less adds nothing;   *)
(* there is at most one contractor factor.                                 *)
C10_StrictContractorThresholds ==
    Scored =>
        \A i \in DOMAIN ret.value :
            LET row == ret.value[i]
                p == row.contractor_rework_propensity
                rest == 5 + SpecAgeDelta(row) + SpecResolutionDelta(row)
            IN  /\ CountFactors(row, ContractorFactorNames) <= 1
                /\ (p.kind = "float" /\ p.v > 200) =>
                       /\ HasFactor(row, "High Propensity Contractor")
                       /\ row.predicted_rework_risk_score = Clamp01(rest + 25)
                /\ (p.kind = "float" /\ p.v > 120 /\ p.v <= 200) =>
                       /\ HasFactor(row, "Moderate Propensity Contractor")
                       /\ row.predicted_rework_risk_score = Clamp01(rest + 10)
                /\ (p.kind = "float" /\ p.v <= 120) =>
                       /\ CountFactors(row, ContractorFactorNames) = 0
                       /\ row.predicted_rework_risk_score = Clamp01(rest)

\* a scored batch with propensities of exactly 0.20 and exactly 0.12
C10_Witness ==
    /\ Scored
    /\ \E i, j \in DOMAIN ret.value :
           /\ ret.value[i].contractor_rework_propensity = Float64(200)
           /\ HasFactor(ret.value[i], "Moderate Propensity Contractor")
           /\ ret.value[j].contractor_rework_propensity = Float64(120)
           /\ CountFactors(ret.value[j], ContractorFactorNames) = 0

----------------------------------------------------------------------------
\* the rule a factor comes from: 1 age, 2 resolution, 3 contractor
ResolutionFactorNames == {"Quick Fix Indicated", "Thorough Fix Performed"}
RuleOf(factor) ==
    IF factor.factor \in AgeFactorNames THEN 1
    ELSE IF factor.factor \in ResolutionFactorNames THEN 2
    ELSE IF factor.factor \in ContractorFactorNames THEN 3 ELSE 0

(* C11: every one of the three rules is evaluated on every work order,     *)
(* whatever the score the earlier rules have accumulated: a rule's factor  *)
(* is in the list exactly when the rule applies to the row, the score is   *)
(* the clamped sum of all three increments, and the factors stand in the   *)
(* order age, resolution, contractor.                                      *)
C11_AllRulesInOrder ==
    Scored =>
        \A i \in DOMAIN ret.value :
            LET row == ret.value[i]
                factors == row.predicted_risk_factors
            IN  /\ (CountFactors(row, AgeFactorNames) = 1) <=> (SpecAgeDelta(row) # 0)
                /\ (CountFactors(row, ResolutionFactorNames) = 1) <=> (SpecResolutionDelta(row) # 0)
                /\ (CountFactors(row, ContractorFactorNames) = 1) <=> (SpecContractorDelta(row) # 0)
                /\ row.predicted_rework_risk_score =
                       Clamp01(5 + SpecAgeDelta(row) + SpecResolutionDelta(row)
                                 + SpecContractorDelta(row))
                /\ \A k \in DOMAIN factors : \A l \in DOMAIN factors :
                       k < l => RuleOf(factors[k]) < RuleOf(factors[l])

\* a row whose score was 0.05 - 0.25 after the resolution rule and which the
\* contractor rule still raised, beside a row that bears all three factors
C11_Witness ==
    /\ Scored
    /\ \E i \in DOMAIN ret.value :
           LET row == ret.value[i]
           IN  /\ 5 + SpecAgeDelta(row) + SpecResolutionDelta(row) < 0
               /\ SpecContractorDelta(row) > 0
               /\ Len(row.predicted_risk_factors) = 2
               /\ row.predicted_rework_risk_score =
                      5 + SpecAgeDelta(row) + SpecResolutionDelta(row) + SpecContractorDelta(row)
    /\ \E j \in DOMAIN ret.value :
           LET factors == ret.value[j].predicted_risk_factors
           IN  /\ Len(factors) = 3
               /\ << RuleOf(factors[1]), RuleOf(factors[2]), RuleOf(factors[3]) >> = <<1, 2, 3>>

----------------------------------------------------------------------------
\* the scenario's work order as a row of the scored frame: installed in
\* 2000, created in 2024, "temporary patch applied", propensity 0.25
IsOldPatchedHighPropensity(row) ==
    /\ row.installation_year.kind \in {"int", "float"}
    /\ row.installation_year.v = 2000
    /\ row.created_date.year = 2024
    /\ ~row.resolution_text_simulated.na
    /\ Lower(row.resolution_text_simulated.s) = Lower(TemporaryPatchApplied)
    /\ row.contractor_rework_propensity.kind = "float"
    /\ row.contractor_rework_propensity.v = 250

(* C12: a work order on an asset installed in 2000, created in 2024, with  *)
(* resolution "temporary patch applied" and a contractor of propensity     *)
(* 0.25 is scored 1.0 with the factors "Old Asset (Age: 24)", "Quick Fix   *)
(* Indicated", "High Propensity Contractor (Prop: 0.25)", in this order.   *)
C12_OldPatchedHighPropensity ==
    Scored =>
        \A i \in DOMAIN ret.value :
            IsOldPatchedHighPropensity(ret.value[i]) =>
                /\ ret.value[i].predicted_rework_risk_score = 100
                /\ ret.value[i].predicted_risk_factors =
                       << [factor |-> "Old Asset", num |-> 24, fmt |-> "int"],
                          [factor |-> "Quick Fix Indicated", num |-> 0, fmt |-> ""],
                          [factor |-> "High Propensity Contractor", num |-> 25, fmt |-> ".2f"] >>

----------------------------------------------------------------------------
\* the classifier ran last
Flagged == call = "flag_urgent_complaints"

\* the text fields of a row of a frame that hold a value
FieldsOf(df, row) ==
    { col \in df.columns : (\E k \in DOMAIN text_columns : text_columns[k] = col) /\ ~row[col].na }

\* the keyword stands in the text, in any case, with no letter, digit or
\* underscore right before it and none right after it
ContainsWord(keyword, text) ==
    \E i \in 1..(Len(text) - Len(keyword) + 1) :
        /\ \A j \in 1..Len(keyword) : LowerChar(text[i + j - 1]) = keyword[j]
        /\ i = 1 \/ ~IsWordChar(text[i - 1])
        /\ i + Len(keyword) > Len(text) \/ ~IsWordChar(text[i + Len(keyword)])

Reported(row, keyword) ==
    \E k \in DOMAIN row.urgent_keywords_found : row.urgent_keywords_found[k] = keyword

KeywordFire == <<"f","i","r","e">>
KeywordNoHeat == <<"n","o"," ","h","e","a","t">>
KeywordElderly == <<"e","l","d","e","r","l","y">>

(* C13: a keyword is reported for a complaint exactly when one of its text *)
(* fields contains it as a whole word or phrase, in any case: "firefly     *)
(* alarm" does not report "fire", "there was a fire" does, and "No heat in *)
(* unit, elderly tenant" reports "no heat" and "elderly".                  *)
C13_WholeWordMatch ==
    Flagged =>
        \A i \in DOMAIN ret.value.rows :
            LET row == ret.value.rows[i]
                fields == FieldsOf(ret.value, row)
            IN  /\ \A k \in DOMAIN URGENT_KEYWORDS :
                       Reported(row, URGENT_KEYWORDS[k]) <=>
                           \E col \in fields : ContainsWord(URGENT_KEYWORDS[k], row[col].s)
                /\ \A col \in fields :
                       /\ Lower(row[col].s) = Lower(ThereWasAFire) => Reported(row, KeywordFire)
                       /\ Lower(row[col].s) = Lower(NoHeatElderly) =>
                              Reported(row, KeywordNoHeat) /\ Reported(row, KeywordElderly)
                /\ (\A col \in fields : Lower(row[col].s) = Lower(FireflyAlarm))
                       => ~Reported(row, KeywordFire)

\* a frame with "firefly alarm", which reports nothing, and "there was a
\* fire", which reports "fire"
C13_Witness ==
    /\ Flagged
    /\ \E i \in DOMAIN ret.value.rows :
           LET row == ret.value.rows[i]
           IN  /\ "descriptor" \in FieldsOf(ret.value, row)
               /\ Lower(row.descriptor.s) = Lower(FireflyAlarm)
               /\ row.urgent_keywords_found = <<>>
    /\ \E j \in DOMAIN ret.value.rows :
           LET row == ret.value.rows[j]
           IN  /\ "descriptor" \in FieldsOf(ret.value, row)
               /\ Lower(row.descriptor.s) = Lower(ThereWasAFire)
               /\ Reported(row, KeywordFire)

----------------------------------------------------------------------------
KeywordGasLeak == <<"g","a","s"," ","l","e","a","k">>

\* how often a row reports a keyword
TimesReported(row, keyword) ==
    Cardinality({ k \in DOMAIN row.urgent_keywords_found :
                    row.urgent_keywords_found[k] = keyword })

(* C14: the keywords matched in the descriptor, the complaint type and the *)
(* resolution description of a complaint are reported as one collection in *)
(* which no keyword occurs twice, even when several fields hold it.        *)
C14_KeywordsDeduplicated ==
    Flagged =>
        \A i \in DOMAIN ret.value.rows :
            \A k \in DOMAIN URGENT_KEYWORDS :
                TimesReported(ret.value.rows[i], URGENT_KEYWORDS[k]) <= 1

\* "gas leak" in the descriptor and in the resolution description of one
\* complaint, reported once
C14_Witness ==
    /\ Flagged
    /\ \E i \in DOMAIN ret.value.rows :
           LET row == ret.value.rows[i]
           IN  /\ {"descriptor", "resolution_description"} \subseteq FieldsOf(ret.value, row)
               /\ ContainsWord(KeywordGasLeak, row.descriptor.s)
               /\ ContainsWord(KeywordGasLeak, row.resolution_description.s)
               /\ TimesReported(row, KeywordGasLeak) = 1

----------------------------------------------------------------------------
\* the field is not in the frame, holds no value, holds a number, or holds
\* an empty or blank text
NoTextIn(df, row, col) ==
    \/ col \notin df.columns
    \/ row[col].na
    \/ ~row[col].str
    \/ \A k \in DOMAIN row[col].s : row[col].s[k] = " "

(* C15: in the frame flag_urgent_complaints returns, a complaint is urgent *)
(* exactly when its collection of matched keywords is not empty; a         *)
(* complaint whose three text fields are empty, absent or not text is not  *)
(* urgent and has an empty collection; the call raises nothing.            *)
C15_UrgentIffKeywords ==
    Flagged =>
        /\ ret.raised = ""
        /\ Len(ret.value.rows) = Len(complaints_df.rows)
        /\ \A i \in DOMAIN ret.value.rows :
               LET row == ret.value.rows[i]
               IN  /\ row.is_urgent <=> (row.urgent_keywords_found # <<>>)
                   /\ (\A k \in DOMAIN text_columns : NoTextIn(ret.value, row, text_columns[k]))
                          => (~row.is_urgent /\ row.urgent_keywords_found = <<>>)

\* a frame with a complaint whose descriptor is a number and whose other
\* fields are empty, not urgent, and a complaint that is urgent by its
\* resolution description alone
C15_Witness ==
    /\ Flagged
    /\ \E i \in DOMAIN ret.value.rows :
           LET row == ret.value.rows[i]
           IN  /\ ~row.descriptor.na /\ ~row.descriptor.str
               /\ \A k \in DOMAIN text_columns : NoTextIn(ret.value, row, text_columns[k])
               /\ ~row.is_urgent
               /\ row.urgent_keywords_found = <<>>
    /\ \E j \in DOMAIN ret.value.rows :
           LET row == ret.value.rows[j]
           IN  /\ row.is_urgent
               /\ row.urgent_keywords_found # <<>>
               /\ check_text_for_urgency(Str(row.descriptor)) = <<>>

----------------------------------------------------------------------------
(* C16: when the three files load, the scored frame has exactly one row    *)
(* for every work order of the file, whatever the asset and contractor     *)
(* files hold: as many rows as work orders, one for each wo_id.            *)
C16_OneRowPerWorkOrder ==
    (Scored /\ WellFormedFiles) =>
        /\ Len(ret.value) = Len(work_orders_csv)
        /\ \A w \in DOMAIN work_orders_csv : Cardinality(RowsOf(ret.value, w)) = 1

----------------------------------------------------------------------------
----------------------------------------------------------------------------
\* what the scorer assigns to the rows of a frame
Assessments(df) ==
    [i \in DOMAIN df |->
        [predicted_rework_risk_score |-> df[i].predicted_rework_risk_score,
         predicted_risk_factors |-> df[i].predicted_risk_factors]]

\* work order w of the file scored as a batch of its own, on the same
\* asset and contractor files
ScoredAlone(w) ==
    predict_rework_risk_for_work_orders(csv_error, assets_csv, contractors_csv,
                                        << work_orders_csv[w] >>)

(* C18: the score and the factor labels of a work order are those it gets  *)
(* when it is scored as a batch of its own: they do not depend on the      *)
(* other work orders of the batch, nor on its place among them.            *)
C18_NoCrossRecordDependency ==
    (Scored /\ WellFormedFiles) =>
        \A w \in DOMAIN work_orders_csv :
            Assessments(SelectSeq(ret.value, LAMBDA row : row.wo_id = w))
                = Assessments(ScoredAlone(w).df)

----------------------------------------------------------------------------
(* C19: flag_urgent_complaints leaves the frame it is given as it was: the *)
(* caller's frame has the same columns and the same cells after the call   *)
(* (no is_urgent, no urgent_keywords_found, no text changed), and the two  *)
(* columns are in the returned frame only.                                 *)
C19_InputFrameUnchanged ==
    [][ FlagUrgentComplaints =>
            /\ complaints_df' = complaints_df
            /\ {"is_urgent", "urgent_keywords_found"} \cap complaints_df'.columns = {}
            /\ {"is_urgent", "urgent_keywords_found"} \subseteq ret'.value.columns
            /\ \A i \in DOMAIN complaints_df.rows : \A col \in complaints_df.columns :
                   ret'.value.rows[i][col] = complaints_df.rows[i][col] ]_vars

\* the classifier has flagged a complaint of a frame read from a CSV file,
\* and the caller's frame has no flag
C19_Witness ==
    /\ Flagged
    /\ \E i \in DOMAIN ret.value.rows : ret.value.rows[i].is_urgent
    /\ complaints_df.rows # <<>>
    /\ complaints_df.columns = AllColumns
    /\ \E i \in DOMAIN complaints_df.rows :
           complaints_df.rows[i].descriptor.s # Lower(complaints_df.rows[i].descriptor.s)

----------------------------------------------------------------------------
\* work order w of the file is on an asset installed after the work order
\* was created
InstalledLater(w) ==
    \E a \in DOMAIN assets_csv :
        /\ assets_csv[a].asset_id = work_orders_csv[w].asset_id
        /\ assets_csv[a].installation_year.kind = "int"
        /\ assets_csv[a].installation_year.v > work_orders_csv[w].created_date.year

(* C20: the asset age of a scored work order is the year of its created    *)
(* date minus the installation year of its asset, never clamped: an asset  *)
(* installed after the work order was created gives a negative age, which  *)
(* fires no age rule and raises no error.                                  *)
C20_AgeNotClamped ==
    /\ (call = "predict_rework_risk_for_work_orders" /\ WellFormedFiles) => ret.raised = ""
    /\ Scored =>
          \A i \in DOMAIN ret.value :
              LET row == ret.value[i]
              IN  row.installation_year.kind \in {"int", "float"} =>
                    /\ row.asset_age_at_wo.kind = row.installation_year.kind
                    /\ row.asset_age_at_wo.v = row.created_date.year - row.installation_year.v
                    /\ InstalledLater(row.wo_id) =>
                          /\ row.asset_age_at_wo.v < 0
                          /\ CountFactors(row, AgeFactorNames) = 0
                          /\ row.predicted_rework_risk_score =
                                 Clamp01(5 + SpecResolutionDelta(row) + SpecContractorDelta(row))

\* a scored work order created in 2024 on an asset installed in 2026: age -2
C20_Witness ==
    /\ Scored
    /\ \E i \in DOMAIN ret.value :
           /\ InstalledLater(ret.value[i].wo_id)
           /\ ret.value[i].asset_age_at_wo.v = 0 - 2
           /\ CountFactors(ret.value[i], AgeFactorNames) = 0
----------------------------------------------------------------------------
\* the complaint fetch of the agent gives no data: a request failed or the
\* endpoint has no records
NoComplaintData == fetch_and_process_311_data(api_pages, DefaultMaxPages).rows = <<>>

RequestFailsAfterAPage ==
    \E i \in DOMAIN api_pages : i > 1 /\ ~api_pages[i].ok /\ \A j \in 1..(i - 1) : api_pages[j].ok

BriefingTools == <<"get_today_urgent_complaints", "get_recent_high_rework_risk_jobs">>

\* C21: when the complaint fetch is empty or fails, or flagging or ranking
\* raises, get_today_urgent_complaints returns [] and raises nothing; and
\* generate_daily_briefing (its API key configured) then still collects the
\* high-risk jobs and goes on to the agent: it constructs it and, unless the
\* constructor itself raises, asks it for the briefing with those jobs in
\* the prompt.
C21_NoDataIsNotAnError ==
    /\ call = "get_today_urgent_complaints" =>
          /\ ret.raised = ""
          /\ (NoComplaintData \/ ret.caught # "") => ret.value = <<>>
    /\ (call = "generate_daily_briefing" /\ ret.env.gemini_api_key) =>
          /\ Len(ret.value.calls) >= 3
          /\ SubSeq(ret.value.calls, 1, 3) = BriefingTools \o <<"CodeAgent">>
          /\ ret.env.agent # "init_raised" =>
                /\ ret.value.calls = BriefingTools \o <<"CodeAgent", "generate">>
                /\ ret.value.urgent_complaints = <<>>
                /\ ret.value.high_risk_jobs =
                      get_recent_high_rework_risk_jobs(csv_error, assets_csv, contractors_csv,
                                                       work_orders_csv).value
          /\ ret.env.agent = "response" => (ret.caught = "" /\ ret.value.text = "response")

\* a request fails after a page of complaints was fetched, and the briefing
\* is requested all the same, with a high-risk job in it
C21_Witness ==
    /\ call = "generate_daily_briefing"
    /\ RequestFailsAfterAPage
    /\ NoComplaintData
    /\ ret.env.gemini_api_key
    /\ ret.value.calls = BriefingTools \o <<"CodeAgent", "generate">>
    /\ ret.value.high_risk_jobs # <<>>
    /\ ret.value.text = "response"
----------------------------------------------------------------------------
\* the requests of the running fetch: at most max_pages of them, the i-th
\* with $offset (i - 1) * limit, and none after an empty page or a failure
PaginationBounded ==
    LET requests == fetch.requests
    IN  /\ Len(requests) <= fetch.max_pages
        /\ \A i \in DOMAIN requests : requests[i].offset = (i - 1) * limit
        /\ \A i \in DOMAIN requests :
              requests[i].outcome \in {"empty", "failed"} => (i = Len(requests) /\ fetch.pc = "done")

\* C22: the pagination loop of fetch_and_process_311_data terminates; it
\* makes at most max_pages requests, at offsets 0, limit, 2 * limit, ...,
\* stops at the first empty page and requests nothing after an empty page
\* or a failed request.
C22_PaginationTerminates ==
    /\ []PaginationBounded
    /\ (fetch.pc = "loop") ~> (fetch.pc = "done")

\* the endpoint has more pages than max_pages, every request brought
\* records, and the loop ended after max_pages requests
C22_Witness ==
    /\ fetch.pc = "done"
    /\ fetch.max_pages >= 1
    /\ Len(fetch.requests) = fetch.max_pages
    /\ \A i \in DOMAIN fetch.requests : fetch.requests[i].outcome = "records"
    /\ Len(api_pages) > fetch.max_pages
    /\ api_pages[fetch.max_pages + 1].ok /\ api_pages[fetch.max_pages + 1].records # <<>>
----------------------------------------------------------------------------
SomeRequestFailed == \E i \in DOMAIN fetch.requests : fetch.requests[i].outcome = "failed"

\* C23: a fetch one of whose requests failed returns an empty frame, with
\* none of the records of the pages fetched before; a frame with rows is
\* returned only when every request made succeeded.
C23_AllOrNothing ==
    (call = "fetch_and_process_311_data" /\ fetch.pc = "done") =>
        /\ SomeRequestFailed => (ret.value = EmptyDataFrame /\ ret.raised = "")
        /\ ret.value.rows # <<>> =>
              \A i \in DOMAIN fetch.requests : fetch.requests[i].outcome # "failed"

\* a page of records was fetched, the next request failed, and the call
\* returned an empty frame
C23_Witness ==
    /\ call = "fetch_and_process_311_data"
    /\ fetch.pc = "done"
    /\ Len(fetch.requests) >= 2
    /\ fetch.requests[1].outcome = "records"
    /\ fetch.requests[Len(fetch.requests)].outcome = "failed"
    /\ fetch.all_records # <<>>
    /\ ret = Caught(EmptyDataFrame, "RequestException")
----------------------------------------------------------------------------
\* C24: for every batch, the number of work orders the scorer reports as
\* flagged high risk equals the number of work orders that pass the
\* high-risk filter of get_recent_high_rework_risk_jobs (before the cut to
\* five), also when a work order scores exactly 0.6.
C24_HighRiskCountsAgree ==
    Scored => high_risk_count(ret.value) = Len(SelectSeq(ret.value, IsHighRisk))
====
